---- MODULE Spec2Model ----
(***************************************************************************)
(* Smart Helpdesk: the turn-processing pipeline of main.py.                *)
(*                                                                         *)
(* POST /chat (chat_endpoint -> process_query_ai) and GET /chat/history    *)
(* (get_history) over the per-session files kept by FileChatMessageHistory.*)
(*                                                                         *)
(* Text is modelled as a sequence of tokens: whitespace tokens, the code   *)
(* fence marker, the word "json", free text, and tokens that each stand for *)
(* one complete JSON document.  str.strip, str.removeprefix,               *)
(* str.removesuffix and json.loads are computed on those sequences.        *)
(***************************************************************************)
EXTENDS Naturals, Sequences, FiniteSets, TLC

VARIABLES
    files,   \* chat_sessions/<session_id>.json: NoFile or the serialized turn log
    resp,    \* the request handled last and what the HTTP caller got for it
    sent,    \* per session, the requests whose turns were handed to add_message
    nreq,    \* number of requests handled so far
    pc,      \* per worker process, its position inside process_query_ai
    loc      \* per worker process, the locals of its running request

vars == <<files, resp, sent, nreq, pc, loc>>

---------------------------------------------------------------------------
(* Bounds *)

MaxReq == 2          \* requests handled one after the other (Spec)
MaxConcReq == 2      \* requests started over all workers (SpecConc)

---------------------------------------------------------------------------
(* Python values *)

None   == "None"
Absent == "<absent>"
NoFile == "<no file>"

Sessions == {"s1", "s2"}

\* request.message
Question == <<"my password is not working">>

\* request.image_data: omitted, or a data URI (a screenshot with text on it, a
\* blank screenshot, bytes that are no image)
ImgText    == "data:image/png;base64,TEXT"
ImgBlank   == "data:image/png;base64,BLANK"
ImgCorrupt == "data:image/png;base64,!!notanimage"

\* "if image_data:" (None and "" are falsy)
Truthy(image_data) == image_data # None /\ image_data # ""

---------------------------------------------------------------------------
(* Text *)

\* the three-backtick code fence marker
Fence == "<fence>"
Whitespace == {" ", "\n"}

RECURSIVE lstrip(_)
lstrip(s) == IF s # <<>> /\ Head(s) \in Whitespace THEN lstrip(Tail(s)) ELSE s

RECURSIVE rstrip(_)
rstrip(s) ==
    IF s # <<>> /\ s[Len(s)] \in Whitespace THEN rstrip(SubSeq(s, 1, Len(s) - 1)) ELSE s

strip(s) == rstrip(lstrip(s))

startswith(s, p) == Len(s) >= Len(p) /\ SubSeq(s, 1, Len(p)) = p
endswith(s, p) == Len(s) >= Len(p) /\ SubSeq(s, Len(s) - Len(p) + 1, Len(s)) = p

removeprefix(s, p) == IF startswith(s, p) THEN SubSeq(s, Len(p) + 1, Len(s)) ELSE s
removesuffix(s, p) == IF endswith(s, p) THEN SubSeq(s, 1, Len(s) - Len(p)) ELSE s

\* content.strip().removeprefix(<fence>json).removesuffix(<fence>).strip()
Clean(s) == strip(removesuffix(removeprefix(strip(s), <<Fence, "json">>), <<Fence>>))

---------------------------------------------------------------------------
(* JSON documents the oracle may produce, and what json.loads makes of them *)

TicketRequired ==
    {"title", "description", "priority", "category", "subcategory", "status", "source",
     "tags", "aiAnalysis"}

\* the ticket object of the prompt: the schema's fields plus userid and username
PromptTicket  == "ticket{prompt}"
PartialTicket == "ticket{title,description}"
SchemaTicket  == "ticket{schema}"

TicketFields(t) ==
    CASE t = PromptTicket  -> TicketRequired \cup {"userid", "username"}
      [] t = SchemaTicket  -> TicketRequired
      [] t = PartialTicket -> {"title", "description"}
      [] OTHER             -> {}

Steps == "['Step 1...']"

Dict(solution, ticket, responseText) ==
    [top |-> "dict", solution |-> solution, ticket |-> ticket, responseText |-> responseText]

NonDict(kind) ==
    [top |-> kind, solution |-> Absent, ticket |-> Absent, responseText |-> Absent]

DocSolution == "{solution:[..],ticket:null,responseText:..}"
DocTicket   == "{solution:null,ticket:{..},responseText:..}"
DocAsk      == "{solution:null,ticket:null,responseText:..}"
DocBoth     == "{solution:[..],ticket:{..},responseText:..}"
DocNoText   == "{solution:[..],ticket:null}"
DocPartial  == "{solution:null,ticket:{title,description},responseText:..}"
DocList     == "[1]"

JsonDocs == {DocSolution, DocTicket, DocAsk, DocBoth, DocNoText, DocPartial, DocList}

JsonValue(doc) ==
    CASE doc = DocSolution -> Dict(Steps, None, "Try these steps.")
      [] doc = DocTicket   -> Dict(None, PromptTicket, "I have raised a ticket.")
      [] doc = DocAsk      -> Dict(None, None, "Can you tell me more?")
      [] doc = DocBoth     -> Dict(Steps, PromptTicket, "Steps and a ticket.")
      [] doc = DocNoText   -> Dict(Steps, None, Absent)
      [] doc = DocPartial  -> Dict(None, PartialTicket, "I have raised a ticket.")
      [] doc = DocList     -> NonDict("list")

\* json.loads: optional whitespace, one JSON document, optional whitespace
JsonValid(s) == Len(strip(s)) = 1 /\ strip(s)[1] \in JsonDocs
json_loads(s) == JsonValue(strip(s)[1])

---------------------------------------------------------------------------
(* The oracle: main_chain.invoke either raises or returns a message whose   *)
(* content is some text                                                     *)

Returns(text) == [raises |-> FALSE, content |-> text]
OracleRaises  == [raises |-> TRUE, content |-> <<>>]

OracleTexts ==
    { <<DocSolution>>,
      <<" ", Fence, "json", "\n", DocTicket, "\n", Fence, "\n">>,
      <<Fence, "json", "\n", Fence, "json", "\n", DocAsk, "\n", Fence, "\n", Fence>>,
      <<"Sorry, I cannot help with that.">>,
      <<DocBoth>>,
      <<DocNoText>>,
      <<Fence, "json", DocPartial, Fence>>,
      <<DocList>> }

OracleOutcomes == {OracleRaises} \cup {Returns(t) : t \in OracleTexts}

---------------------------------------------------------------------------
(* image_processing.py *)

\* base64.b64decode + Image.open succeed on the payload after the last comma
Decodable(image_data) == image_data \in {ImgText, ImgBlank}

\* pytesseract.image_to_string
image_to_string(image_data) ==
    IF image_data = ImgText THEN <<"\n", "Error 0x80070005: access denied", "\n">>
    ELSE <<"\n">>

ImageErrorSentinel == <<"Error: Unable to process screenshot.">>
NoTextSentinel == <<"No readable text found in screenshot.">>

\* mutant: no except clause, the decoding error propagates
process_image_propagates(image_data) ==
    IF Decodable(image_data)
    THEN [raised |-> FALSE,
          value |-> IF strip(image_to_string(image_data)) # <<>>
                    THEN strip(image_to_string(image_data))
                    ELSE NoTextSentinel]
    ELSE [raised |-> TRUE, value |-> <<>>]

\* [raised, value]: process_image catches every Exception of its body
process_image(image_data) ==
    IF Decodable(image_data)
    THEN [raised |-> FALSE,
          value |-> IF strip(image_to_string(image_data)) # <<>>
                    THEN strip(image_to_string(image_data))
                    ELSE NoTextSentinel]
    ELSE [raised |-> FALSE, value |-> ImageErrorSentinel]

---------------------------------------------------------------------------
(* llm_setup.py: the session store (FileChatMessageHistory on one file per  *)
(* session)                                                                 *)

\* mutant: the file name does not depend on session_id, every session shares one file
write_text_one_file(fs, session_id, msgs) == [s \in Sessions |-> msgs]

\* file_path.write_text(json.dumps(...)): the file's content is replaced
write_text(fs, session_id, msgs) == [fs EXCEPT ![session_id] = msgs]

\* get_session_history: the constructor writes "[]" when the file is missing
exists(fs, session_id) == fs[session_id] # NoFile

get_session_history(fs, session_id) ==
    IF ~exists(fs, session_id) THEN write_text(fs, session_id, <<>>) ELSE fs

\* history.messages: the whole file, read and deserialized
messages(fs, session_id) == fs[session_id]

\* history.add_message: messages + the new one, written back as the whole file
add_message(fs, session_id, msg) ==
    write_text(fs, session_id, Append(messages(fs, session_id), msg))

---------------------------------------------------------------------------
(* main.py: process_query_ai *)

fallback_response == Dict(None, None, "I'm sorry, I'm having trouble connecting.")

NoValue == NonDict("<no value>")
NoPrompt == [chat_history |-> <<>>, query |-> <<>>]

TextPart(text) == [type |-> "text", text |-> text]
ImagePart(url) == [type |-> "image_url", image_url |-> [url |-> url]]

HumanMessage(content) == [type |-> "human", content |-> content]
AIMessage(content)    == [type |-> "ai", content |-> content]

\* f"SCREENSHOT OCR RESULT:\n{extracted_text}\n\nUSER MESSAGE: \"{query}\""
OcrQuery(extracted_text, query) ==
    <<"SCREENSHOT OCR RESULT:", "\n">> \o extracted_text
        \o <<"\n", "\n", "USER MESSAGE: \"">> \o query \o <<"\"">>

effective_query(query, image_data) ==
    IF Truthy(image_data) THEN OcrQuery(process_image(image_data).value, query) ELSE query

\* mutant: the OCR-augmented query is what goes into the history
user_message_content_effective(query, image_data) ==
    IF Truthy(image_data)
    THEN <<TextPart(effective_query(query, image_data)), ImagePart(image_data)>>
    ELSE <<TextPart(effective_query(query, image_data))>>

user_message_content(query, image_data) ==
    IF Truthy(image_data)
    THEN <<TextPart(query), ImagePart(image_data)>>
    ELSE <<TextPart(query)>>

\* mutant: the human turn is appended before the oracle is called
SessionAtInvokeHumanFirst(fs, query, session_id, image_data) ==
    add_message(get_session_history(fs, session_id), session_id,
                HumanMessage(user_message_content(query, image_data)))

\* the session store when main_chain.invoke is called: nothing was appended yet
SessionAtInvoke(fs, query, session_id, image_data) ==
    get_session_history(fs, session_id)

\* mutant: json.loads comes first and nothing is appended
PersistNothing(fs, query, session_id, image_data, content) == fs

\* history.add_message(user_message_for_history); history.add_ai_message(...)
Persist(fs, query, session_id, image_data, content) ==
    add_message(add_message(fs, session_id,
                            HumanMessage(user_message_content(query, image_data))),
                session_id, AIMessage(content))

\* what the try block of process_query_ai does: raised says whether an
\* exception left it, ret is the value of its return statement, files is the
\* session store it leaves, prompt what main_chain.invoke was called with
TryBody(fs, query, session_id, image_data, oracle) ==
    LET fs1     == SessionAtInvoke(fs, query, session_id, image_data)
        prompt  == [chat_history |-> messages(fs1, session_id),
                    query |-> effective_query(query, image_data)]
        content == Clean(oracle.content)
        fs3     == Persist(fs1, query, session_id, image_data, content)
    IN  IF Truthy(image_data) /\ process_image(image_data).raised
        THEN [raised |-> TRUE, ret |-> NoValue, files |-> fs1, invoked |-> FALSE,
              prompt |-> NoPrompt, appended |-> FALSE, content |-> <<>>]
        ELSE IF oracle.raises
        THEN [raised |-> TRUE, ret |-> NoValue, files |-> fs1, invoked |-> TRUE,
              prompt |-> prompt, appended |-> FALSE, content |-> <<>>]
        ELSE IF ~JsonValid(content)
        THEN [raised |-> TRUE, ret |-> NoValue, files |-> fs3, invoked |-> TRUE,
              prompt |-> prompt, appended |-> TRUE, content |-> content]
        ELSE [raised |-> FALSE, ret |-> json_loads(content), files |-> fs3,
              invoked |-> TRUE, prompt |-> prompt, appended |-> TRUE, content |-> content]

\* mutant: no except clause, the exception leaves process_query_ai
ExceptHandlerReraise(t) == t

\* except Exception: log and return fallback_response
ExceptHandler(t) == [t EXCEPT !.raised = FALSE, !.ret = fallback_response]

process_query_ai(fs, query, session_id, image_data, oracle) ==
    LET t == TryBody(fs, query, session_id, image_data, oracle)
    IN  IF t.raised THEN ExceptHandler(t) ELSE t

---------------------------------------------------------------------------
(* schemas.py: ChatResponse as the response_model of POST /chat *)

IsStr(v) == v # Absent /\ v # None
IsTicket(v) == v \in {PromptTicket, PartialTicket, SchemaTicket}

\* Ticket: every declared field is required
TicketValid(t) == IsTicket(t) /\ TicketRequired \subseteq TicketFields(t)

\* ChatResponse: solution and ticket optional with default None, responseText required
ChatResponseValid(v) ==
    /\ v.top = "dict"
    /\ v.solution \in {Absent, None, Steps}
    /\ v.ticket \in {Absent, None} \/ TicketValid(v.ticket)
    /\ IsStr(v.responseText)

\* the validated model serialized: defaults filled in, undeclared fields dropped
ChatResponseDump(v) ==
    Dict(IF v.solution = Absent THEN None ELSE v.solution,
         IF v.ticket \in {Absent, None} THEN None ELSE SchemaTicket,
         v.responseText)

InternalServerError == NonDict("Internal Server Error")

\* chat_endpoint: [status, body] for what process_query_ai handed back
chat_endpoint(t) ==
    IF t.raised THEN [status |-> 500, body |-> InternalServerError]
    ELSE IF ChatResponseValid(t.ret) THEN [status |-> 200, body |-> ChatResponseDump(t.ret)]
    ELSE [status |-> 500, body |-> InternalServerError]

---------------------------------------------------------------------------
(* main.py: get_history *)

LoadError == Dict(Absent, Absent, "Error: Could not load this message.")

HistoryPart(part) ==
    IF part.type = "text" THEN [type |-> "text", text |-> part.text]
    ELSE [type |-> "image_url", url |-> part.image_url.url]

\* mutant: an assistant turn that does not fit ChatResponse is shown as the placeholder
HistoryEntryValidating(msg) ==
    IF msg.type = "human"
    THEN [type |-> "human",
          content |-> [i \in 1..Len(msg.content) |-> HistoryPart(msg.content[i])]]
    ELSE [type |-> "ai",
          content |-> IF /\ JsonValid(Clean(msg.content))
                         /\ ChatResponseValid(json_loads(Clean(msg.content)))
                      THEN json_loads(Clean(msg.content))
                      ELSE LoadError]

HistoryEntry(msg) ==
    IF msg.type = "human"
    THEN [type |-> "human",
          content |-> [i \in 1..Len(msg.content) |-> HistoryPart(msg.content[i])]]
    ELSE [type |-> "ai",
          content |-> IF JsonValid(Clean(msg.content))
                      THEN json_loads(Clean(msg.content))
                      ELSE LoadError]

get_history(fs, session_id) ==
    LET log == messages(get_session_history(fs, session_id), session_id)
    IN  [i \in 1..Len(log) |-> HistoryEntry(log[i])]

---------------------------------------------------------------------------
(* The server handling one request at a time: chat_endpoint and get_history *)
(* are async functions that never await, so within one event loop a request *)
(* runs from its first line to its return before the next one starts.       *)

Workers == {"w1", "w2"}

NoRequest ==
    [op |-> "none", session_id |-> "", message |-> <<>>, image_data |-> None,
     oracle |-> OracleRaises, invoked |-> FALSE, prompt |-> NoPrompt,
     raised |-> FALSE, ret |-> NoValue, status |-> 0, body |-> NoValue,
     history |-> <<>>, before |-> [s \in Sessions |-> NoFile]]

IdleLocals ==
    [session_id |-> "", message |-> <<>>, image_data |-> None, oracle |-> OracleRaises,
     prompt |-> NoPrompt, read |-> <<>>, content |-> <<>>]

Init ==
    /\ files = [s \in Sessions |-> NoFile]
    /\ resp = NoRequest
    /\ sent = [s \in Sessions |-> <<>>]
    /\ nreq = 0
    /\ pc = [w \in Workers |-> "idle"]
    /\ loc = [w \in Workers |-> IdleLocals]

\* POST /chat
Chat(session_id, query, image_data, oracle) ==
    LET t == process_query_ai(files, query, session_id, image_data, oracle)
        r == chat_endpoint(t)
    IN  /\ nreq < MaxReq
        /\ files' = t.files
        /\ resp' = [op |-> "chat", session_id |-> session_id, message |-> query,
                    image_data |-> image_data, oracle |-> oracle, invoked |-> t.invoked,
                    prompt |-> t.prompt, raised |-> t.raised, ret |-> t.ret,
                    status |-> r.status, body |-> r.body, history |-> <<>>,
                    before |-> files]
        /\ sent' = IF t.appended
                   THEN [sent EXCEPT ![session_id] =
                            Append(@, [message |-> query, image_data |-> image_data,
                                       content |-> t.content])]
                   ELSE sent
        /\ nreq' = nreq + 1
        /\ UNCHANGED <<pc, loc>>

\* GET /chat/history/{session_id}
History(session_id) ==
    /\ files' = get_session_history(files, session_id)
    /\ resp' = [NoRequest EXCEPT !.op = "history", !.session_id = session_id,
                                 !.status = 200,
                                 !.history = get_history(files, session_id),
                                 !.before = files]
    /\ UNCHANGED <<sent, nreq, pc, loc>>

\* ChatRequest bodies: a message alone, a screenshot alone, a message with bytes
\* that are no image
ChatRequests ==
    { [message |-> Question, image_data |-> None],
      [message |-> <<>>, image_data |-> ImgText],
      [message |-> Question, image_data |-> ImgCorrupt] }

ChatStep ==
    \E session_id \in Sessions, request \in ChatRequests, oracle \in OracleOutcomes :
        Chat(session_id, request.message, request.image_data, oracle)

HistoryStep == \E session_id \in Sessions : History(session_id)

Next == ChatStep \/ HistoryStep

Spec == Init /\ [][Next]_vars

---------------------------------------------------------------------------
(* The server run as several worker processes over the same chat_sessions   *)
(* directory: each worker handles one request at a time, and the workers'   *)
(* file reads and writes interleave.  A step is one file operation (or the  *)
(* oracle call) of process_query_ai.  A write_text is taken as one step: a  *)
(* reader never sees the file half written.                                 *)

\* the oracle outcomes the workers draw from
ConcOutcomes ==
    {OracleRaises, Returns(<<DocSolution>>), Returns(<<"Sorry, I cannot help with that.">>)}

Respond(w, t) ==
    LET r == chat_endpoint(t)
    IN  resp' = [op |-> "chat", session_id |-> loc[w].session_id,
                 message |-> loc[w].message, image_data |-> loc[w].image_data,
                 oracle |-> loc[w].oracle, invoked |-> t.invoked, prompt |-> t.prompt,
                 raised |-> t.raised, ret |-> t.ret, status |-> r.status,
                 body |-> r.body, history |-> <<>>, before |-> files]

\* a worker accepts a request; FileChatMessageHistory.__init__ tests file_path.exists()
WStart(w, session_id, request, oracle) ==
    /\ pc[w] = "idle"
    /\ nreq < MaxConcReq
    /\ nreq' = nreq + 1
    /\ loc' = [loc EXCEPT ![w] = [IdleLocals EXCEPT !.session_id = session_id,
                                                    !.message = request.message,
                                                    !.image_data = request.image_data,
                                                    !.oracle = oracle]]
    /\ pc' = [pc EXCEPT ![w] = IF exists(files, session_id) THEN "invoke" ELSE "create"]
    /\ UNCHANGED <<files, resp, sent>>

\* FileChatMessageHistory.__init__: the missing file is written as "[]"
WCreate(w) ==
    /\ pc[w] = "create"
    /\ files' = write_text(files, loc[w].session_id, <<>>)
    /\ pc' = [pc EXCEPT ![w] = "invoke"]
    /\ UNCHANGED <<resp, sent, nreq, loc>>

\* lines 226-245: OCR, history.messages, main_chain.invoke, the cleaned content
WInvoke(w) ==
    LET l      == loc[w]
        prompt == [chat_history |-> messages(files, l.session_id),
                   query |-> effective_query(l.message, l.image_data)]
        imgErr == Truthy(l.image_data) /\ process_image(l.image_data).raised
        t      == [raised |-> TRUE, ret |-> NoValue, files |-> files,
                   invoked |-> ~imgErr, prompt |-> IF imgErr THEN NoPrompt ELSE prompt,
                   appended |-> FALSE, content |-> <<>>]
    IN  /\ pc[w] = "invoke"
        /\ IF imgErr \/ l.oracle.raises
           THEN /\ Respond(w, ExceptHandler(t))
                /\ pc' = [pc EXCEPT ![w] = "idle"]
                /\ loc' = [loc EXCEPT ![w] = IdleLocals]
           ELSE /\ pc' = [pc EXCEPT ![w] = "human_read"]
                /\ loc' = [loc EXCEPT ![w].prompt = prompt,
                                      ![w].content = Clean(l.oracle.content)]
                /\ UNCHANGED resp
        /\ UNCHANGED <<files, sent, nreq>>

\* add_message, first half: self.messages reads the file
WRead(w) ==
    /\ pc[w] \in {"human_read", "ai_read"}
    /\ loc' = [loc EXCEPT ![w].read = messages(files, loc[w].session_id)]
    /\ pc' = [pc EXCEPT ![w] = IF pc[w] = "human_read" THEN "human_write" ELSE "ai_write"]
    /\ UNCHANGED <<files, resp, sent, nreq>>

\* add_message, second half: what was read plus the new message is written back
WWrite(w) ==
    LET l   == loc[w]
        msg == IF pc[w] = "human_write"
               THEN HumanMessage(user_message_content(l.message, l.image_data))
               ELSE AIMessage(l.content)
    IN  /\ pc[w] \in {"human_write", "ai_write"}
        /\ files' = write_text(files, l.session_id, Append(l.read, msg))
        /\ pc' = [pc EXCEPT ![w] = IF pc[w] = "human_write" THEN "ai_read" ELSE "loads"]
        /\ sent' = IF pc[w] = "ai_write"
                   THEN [sent EXCEPT ![l.session_id] =
                            Append(@, [message |-> l.message, image_data |-> l.image_data,
                                       content |-> l.content])]
                   ELSE sent
        /\ UNCHANGED <<resp, nreq, loc>>

\* lines 250-260: json.loads and the return, or the except branch
WReturn(w) ==
    LET l == loc[w]
        t == [raised |-> ~JsonValid(l.content),
              ret |-> IF JsonValid(l.content) THEN json_loads(l.content) ELSE NoValue,
              files |-> files, invoked |-> TRUE, prompt |-> l.prompt,
              appended |-> TRUE, content |-> l.content]
    IN  /\ pc[w] = "loads"
        /\ Respond(w, IF t.raised THEN ExceptHandler(t) ELSE t)
        /\ pc' = [pc EXCEPT ![w] = "idle"]
        /\ loc' = [loc EXCEPT ![w] = IdleLocals]
        /\ UNCHANGED <<files, sent, nreq>>

WStartStep ==
    \E w \in Workers, session_id \in Sessions, request \in ChatRequests,
       oracle \in ConcOutcomes :
        WStart(w, session_id, request, oracle)

WCreateStep == \E w \in Workers : WCreate(w)
WInvokeStep == \E w \in Workers : WInvoke(w)
WReadStep   == \E w \in Workers : WRead(w)
WWriteStep  == \E w \in Workers : WWrite(w)
WReturnStep == \E w \in Workers : WReturn(w)

NextConc ==
    WStartStep \/ WCreateStep \/ WInvokeStep \/ WReadStep \/ WWriteStep \/ WReturnStep

SpecConc == Init /\ [][NextConc]_vars

---------------------------------------------------------------------------
(* Properties *)

\* the turn log of a session; a missing file is an empty log
Log(fs, s) == IF fs[s] = NoFile THEN <<>> ELSE fs[s]

IsPrefix(a, b) == Len(a) <= Len(b) /\ SubSeq(b, 1, Len(a)) = a

Contains(s, sub) == \E i \in 1..(Len(s) + 1 - Len(sub)) : SubSeq(s, i, i + Len(sub) - 1) = sub

LastChat == resp.op = "chat"

\* the cleaned oracle output of the last chat request failed json.loads
ParseFailed == ~resp.oracle.raises /\ ~JsonValid(Clean(resp.oracle.content))

\* the human turn a request is to leave in the log: the message as sent and,
\* with an image, the image reference as sent
HumanTurnOf(message, image_data) ==
    [type |-> "human",
     content |-> IF Truthy(image_data)
                 THEN <<[type |-> "text", text |-> message],
                        [type |-> "image_url", image_url |-> [url |-> image_data]]>>
                 ELSE <<[type |-> "text", text |-> message]>>]

\* C1: whenever the oracle call raises or the cleaned oracle output is not valid
\* JSON, process_query_ai returns exactly the fallback reply and no exception
\* leaves it.
C1_FallbackOnFailure ==
    (LastChat /\ (resp.oracle.raises \/ ParseFailed))
        => (~resp.raised /\ resp.ret = fallback_response)

C1_Witness ==
    /\ LastChat /\ ParseFailed
    /\ resp.ret = fallback_response

\* C2: the history returned by GET /chat/history/{id} lists, in the order they
\* were appended, the turns of every chat request that appended to the session:
\* the human turn with the message text as sent (not the OCR-augmented query) and,
\* when image_data was truthy, the image reference as sent; then the assistant turn.
C2_RoundTrip ==
    resp.op = "history" =>
        LET h  == resp.history
            sn == sent[resp.session_id]
        IN  /\ Len(h) = 2 * Len(sn)
            /\ \A i \in 1..Len(sn) :
                /\ h[2 * i - 1].type = "human"
                /\ h[2 * i - 1].content[1] = [type |-> "text", text |-> sn[i].message]
                /\ IF Truthy(sn[i].image_data)
                   THEN /\ Len(h[2 * i - 1].content) = 2
                        /\ h[2 * i - 1].content[2] =
                               [type |-> "image_url", url |-> sn[i].image_data]
                   ELSE Len(h[2 * i - 1].content) = 1
                /\ h[2 * i].type = "ai"
                /\ JsonValid(sn[i].content) => h[2 * i].content = json_loads(sn[i].content)

C2_Witness ==
    /\ resp.op = "history"
    /\ Len(resp.history) = 4
    /\ Len(sent[resp.session_id]) = 2
    /\ sent[resp.session_id][1].image_data = ImgText
    /\ sent[resp.session_id][2].image_data = None

\* C3: a session's turn log is append-only under every interleaving of chat
\* requests: every step leaves each existing log as a prefix of the log after it,
\* so no turn is lost or overwritten.
C3_AppendOnly ==
    [][\A s \in Sessions :
          exists(files, s) => (exists(files', s) /\ IsPrefix(files[s], files'[s]))]_vars

\* C4: a chat request is always answered with a 2xx status, and an oracle output
\* that is valid JSON but does not fit ChatResponse is answered with the fallback.
C4_NeverNon2xx ==
    LastChat =>
        /\ resp.status = 200
        /\ (~resp.oracle.raises /\ JsonValid(Clean(resp.oracle.content))
              /\ ~ChatResponseValid(json_loads(Clean(resp.oracle.content))))
            => resp.body = fallback_response

\* C5: when the cleaned oracle output fails JSON parsing, the human turn and the
\* cleaned, unparsed assistant text are both appended to the session log and the
\* caller gets the fallback reply.
C5_BestEffortPersistence ==
    (LastChat /\ ParseFailed) =>
        /\ files[resp.session_id] =
               Log(resp.before, resp.session_id)
                   \o <<HumanTurnOf(resp.message, resp.image_data),
                        [type |-> "ai", content |-> Clean(resp.oracle.content)]>>
        /\ resp.ret = fallback_response
        /\ resp.status = 200 /\ resp.body = fallback_response

C5_Witness ==
    /\ LastChat /\ ParseFailed
    /\ Len(files[resp.session_id]) = 4
    /\ files[resp.session_id][4].content # <<>>

\* C6 as stated: a request whose oracle call raises gets the fallback reply and
\* grows the session log by exactly one human turn.
C6_OneHumanTurn ==
    (LastChat /\ resp.oracle.raises) =>
        /\ resp.ret = fallback_response
        /\ Len(Log(files, resp.session_id)) = Len(Log(resp.before, resp.session_id)) + 1
        /\ files[resp.session_id][Len(files[resp.session_id])].type = "human"

\* C6 amended: a request whose oracle call raises gets the fallback reply, the
\* same for every such request, and leaves the turns of the session log as they
\* were (the log grows by no turn).
C6_FallbackLeavesLog ==
    (LastChat /\ resp.oracle.raises) =>
        /\ resp.ret = fallback_response
        /\ resp.status = 200 /\ resp.body = fallback_response
        /\ Log(files, resp.session_id) = Log(resp.before, resp.session_id)

C6_Witness ==
    /\ LastChat /\ resp.oracle.raises
    /\ Len(Log(resp.before, resp.session_id)) = 2
    /\ nreq = 2

\* C7: for a chat request whose image cannot be decoded, process_image returns
\* the sentinel without raising, the oracle is still invoked with an effective
\* query that embeds the sentinel and the message, and the request ends as one with
\* a readable image does: the parsed reply and both turns appended when the oracle
\* output parses, the fallback otherwise, and no exception either way.
C7_ImageFailureDoesNotAbort ==
    (LastChat /\ resp.image_data = ImgCorrupt) =>
        /\ process_image(resp.image_data) = [raised |-> FALSE, value |-> ImageErrorSentinel]
        /\ resp.invoked
        /\ Contains(resp.prompt.query, ImageErrorSentinel)
        /\ Contains(resp.prompt.query, resp.message)
        /\ resp.prompt.chat_history = Log(resp.before, resp.session_id)
        /\ ~resp.raised
        /\ resp.ret = IF resp.oracle.raises \/ ParseFailed THEN fallback_response
                      ELSE json_loads(Clean(resp.oracle.content))
        /\ ~resp.oracle.raises =>
               files[resp.session_id] =
                   Log(resp.before, resp.session_id)
                       \o <<HumanTurnOf(resp.message, resp.image_data),
                            [type |-> "ai", content |-> Clean(resp.oracle.content)]>>

C7_Witness ==
    /\ LastChat /\ resp.image_data = ImgCorrupt
    /\ resp.invoked
    /\ resp.ret = JsonValue(DocTicket)
    /\ Len(files[resp.session_id]) = 4

\* C8: in every reply a chat request returns, solution and ticket are never both
\* non-null.
C8_MutuallyExclusive ==
    (LastChat /\ resp.status = 200) =>
        ~(resp.body.solution # None /\ resp.body.ticket # None)

\* the turns of a log alternate human, ai, human, ai, ... and end with an ai turn
Alternates(log) ==
    /\ Len(log) % 2 = 0
    /\ \A i \in 1..Len(log) : log[i].type = IF i % 2 = 1 THEN "human" ELSE "ai"

\* C9: with requests handled one at a time, a chat request appends to its
\* session's log either nothing or one human turn immediately followed by one
\* assistant turn, so every log has even length and alternates human, ai from a
\* human turn on; and the log of every other session is left as it was.
C9_PairsAndIsolation ==
    /\ \A s \in Sessions : Alternates(Log(files, s))
    /\ LastChat =>
        /\ \A s \in Sessions \ {resp.session_id} : files[s] = resp.before[s]
        /\ LET old == Log(resp.before, resp.session_id)
               new == Log(files, resp.session_id)
           IN  \/ new = old
               \/ /\ Len(new) = Len(old) + 2
                  /\ SubSeq(new, 1, Len(old)) = old
                  /\ new[Len(old) + 1].type = "human"
                  /\ new[Len(old) + 2].type = "ai"

C9_Witness ==
    /\ LastChat
    /\ Len(Log(files, resp.session_id)) = 2
    /\ \E s \in Sessions \ {resp.session_id} : Len(Log(files, s)) = 2

\* what GET /chat/history shows for the assistant turn the last chat request appended
ShownForLastChat ==
    LET h == get_history(files, resp.session_id) IN h[Len(h)].content

\* the last chat request appended its turns
LastChatAppended == LastChat /\ ~resp.oracle.raises

\* C10 as stated: the history shows the parsed reply exactly when process_query_ai
\* returned that parsed reply, and shows the load-error placeholder exactly when it
\* returned the fallback because parsing failed.
C10_HistoryIffReply ==
    LastChatAppended =>
        /\ (ShownForLastChat # LoadError) <=> (~ParseFailed /\ resp.ret = ShownForLastChat)
        /\ (ShownForLastChat = LoadError) <=> (ParseFailed /\ resp.ret = fallback_response)

\* C10 amended: when process_query_ai returned the parsed reply, the history shows
\* that same parsed reply; when the history shows the load-error placeholder,
\* process_query_ai returned the fallback because parsing failed.  (The converses
\* fail: an output wrapped in two code fences fails to parse in the request and
\* parses in the history.)
C10_ReplyImpliesHistory ==
    LastChatAppended =>
        /\ ~ParseFailed => (resp.ret = ShownForLastChat /\ ShownForLastChat # LoadError)
        /\ (ShownForLastChat = LoadError) => (ParseFailed /\ resp.ret = fallback_response)

C10_Witness ==
    /\ LastChatAppended
    /\ ~ParseFailed
    /\ resp.ret = JsonValue(DocTicket)
    /\ ShownForLastChat = JsonValue(DocTicket)

====
